---- MODULE Spec2Model ----
(***************************************************************************)
(* Model of the PDF summarizer repository.                                 *)
(*                                                                         *)
(*   src/api.py       FastAPI service, remote Hugging Face backend         *)
(*   src/venv/api.py  FastAPI service, local transformers pipeline         *)
(*   src/app.py       command line program, local transformers pipeline    *)
(*                                                                         *)
(* Strings are sequences of code points.  A list of strings is a sequence  *)
(* of such sequences.                                                      *)
(***************************************************************************)
EXTENDS Integers, Sequences, FiniteSets, TLC

VARIABLES
    ck,        \* one direct call of chunk_text(text, max_length, overlap)
    hf,        \* one direct call of hf_summarize(text)
    impl,      \* which program is running: "api", "venv" or "app"
    runs,      \* per request / per program run: the handler's local state
    tmpfiles   \* the temporary files that exist in the file system

vars == <<ck, hf, impl, runs, tmpfiles>>

----------------------------------------------------------------------------
(* Bounds of the model.                                                    *)

MaxTextLen == 3      \* longest text handed to a direct chunk_text call
MaxLength == 3       \* largest max_length handed to a direct chunk_text call
MaxOverlap == 3      \* largest overlap handed to a direct chunk_text call
MaxIter == 4         \* loop iterations followed when the stride is not positive

----------------------------------------------------------------------------
(* Python built-ins the code uses.                                         *)

Min(a, b) == IF a < b THEN a ELSE b
Max(a, b) == IF a > b THEN a ELSE b

\* s[start:end] for integers start, end: negative indices count from the
\* end, both are clamped to [0, len(s)], an empty range gives "".
PySlice(s, start, end) ==
    LET n == Len(s)
        lo == IF start < 0 THEN Max(start + n, 0) ELSE Min(start, n)
        hi == IF end < 0 THEN Max(end + n, 0) ELSE Min(end, n)
    IN  IF lo >= hi THEN <<>> ELSE SubSeq(s, lo + 1, hi)

\* The characters str.strip() removes: space, \t, \n, \v, \f, \r.
Whitespace == {32, 9, 10, 11, 12, 13}

RECURSIVE LStrip(_)
LStrip(s) ==
    IF s # <<>> /\ Head(s) \in Whitespace THEN LStrip(Tail(s)) ELSE s

RECURSIVE RStrip(_)
RStrip(s) ==
    IF s # <<>> /\ s[Len(s)] \in Whitespace
    THEN RStrip(SubSeq(s, 1, Len(s) - 1))
    ELSE s

\* s.strip()
PyStrip(s) == RStrip(LStrip(s))

\* sep.join(items)
RECURSIVE PyJoin(_, _)
PyJoin(sep, items) ==
    IF items = <<>> THEN <<>>
    ELSE IF Len(items) = 1 THEN items[1]
    ELSE items[1] \o sep \o PyJoin(sep, Tail(items))

----------------------------------------------------------------------------
(* chunk_text, src/api.py:63-75.                                           *)

\* One iteration of the while loop (lines 72-74) on the locals
\* st = [start, chunks].
chunk_body_no_overlap(text, max_length, overlap, st) ==
    [start  |-> st.start + max_length,
     chunks |-> Append(st.chunks, PySlice(text, st.start, st.start + max_length))]

chunk_body(text, max_length, overlap, st) ==
    [start  |-> st.start + max_length - overlap,
     chunks |-> Append(st.chunks, PySlice(text, st.start, st.start + max_length))]

RECURSIVE chunk_loop_le(_, _, _, _)
chunk_loop_le(text, max_length, overlap, st) ==
    IF st.start <= Len(text)
    THEN chunk_loop_le(text, max_length, overlap,
                       chunk_body(text, max_length, overlap, st))
    ELSE st.chunks

\* The whole call, for a configuration on which the loop terminates.
RECURSIVE chunk_loop(_, _, _, _)
chunk_loop(text, max_length, overlap, st) ==
    IF st.start < Len(text)
    THEN chunk_loop(text, max_length, overlap,
                    chunk_body(text, max_length, overlap, st))
    ELSE st.chunks

chunk_text(text, max_length, overlap) ==
    chunk_loop(text, max_length, overlap, [start |-> 0, chunks |-> <<>>])

\* The texts, of code points 97 ("a") and 98 ("b"), of a direct call.
RECURSIVE SeqsUpTo(_, _)
SeqsUpTo(S, n) ==
    IF n = 0 THEN {<<>>}
    ELSE LET shorter == SeqsUpTo(S, n - 1)
         IN  shorter \cup {Append(s, c) : s \in shorter, c \in S}

ChunkTexts == SeqsUpTo({97, 98}, MaxTextLen)

ckNone == [pc |-> "none", text |-> <<>>, max_length |-> 0, overlap |-> 0,
           start |-> 0, chunks |-> <<>>]

\* The call is made: the arguments are bound (line 63).
ChunkInit ==
    \E t \in ChunkTexts, m \in 0..MaxLength, o \in 0..MaxOverlap :
        ck = [pc |-> "entry", text |-> t, max_length |-> m, overlap |-> o,
              start |-> 0, chunks |-> <<>>]

\* Lines 69-70: chunks = [], start = 0.  There is no check of the arguments.
chunk_enter ==
    /\ ck.pc = "entry"
    /\ ck' = [ck EXCEPT !.pc = "loop", !.start = 0, !.chunks = <<>>]
    /\ UNCHANGED <<hf, impl, runs, tmpfiles>>

\* Lines 71-74: the loop condition holds and the body runs once.
chunk_iter ==
    /\ ck.pc = "loop"
    /\ ck.start < Len(ck.text)
    /\ Len(ck.chunks) < MaxIter
    /\ LET st == chunk_body(ck.text, ck.max_length, ck.overlap,
                            [start |-> ck.start, chunks |-> ck.chunks])
       IN  ck' = [ck EXCEPT !.start = st.start, !.chunks = st.chunks]
    /\ UNCHANGED <<hf, impl, runs, tmpfiles>>

\* Lines 71, 75: the loop condition fails and the list is returned.
chunk_return ==
    /\ ck.pc = "loop"
    /\ ~(ck.start < Len(ck.text))
    /\ ck' = [ck EXCEPT !.pc = "returned"]
    /\ UNCHANGED <<hf, impl, runs, tmpfiles>>

----------------------------------------------------------------------------
(* hf_summarize, src/api.py:37-48: the remote backend.                     *)

ErrPrefix == <<69, 114, 114, 111, 114, 32, 99, 97, 108, 108, 105, 110, 103, 32,
               72, 117, 103, 103, 105, 110, 103, 32, 70, 97, 99, 101, 32,
               65, 80, 73, 58, 32>>      \* "Error calling Hugging Face API: "

SummaryTextKey == <<115, 117, 109, 109, 97, 114, 121, 95, 116, 101, 120, 116>>

\* The summaries the model may produce: " a" and "b ".
Summary1 == <<32, 97>>
Summary2 == <<98, 32>>
Summaries == {Summary1, Summary2}

\* A decoded JSON value: its type, its items (a list), its keys and the value
\* under "summary_text" (an object), its characters (a string), and the text
\* str() gives for it.
J(t, items, fields, summary, s, repr) ==
    [t |-> t, items |-> items, fields |-> fields, summary |-> summary,
     s |-> s, repr |-> repr]

JNone == J("null", <<>>, {}, <<>>, <<>>, <<78, 111, 110, 101>>)
JSummaryObj(sm) == J("dict", <<>>, {"summary_text"}, sm, <<>>, <<>>)
JOk(sm) == J("list", <<JSummaryObj(sm)>>, {}, <<>>, <<>>, <<>>)
JEmptyList == J("list", <<>>, {}, <<>>, <<>>, <<91, 93>>)
JErrorObj == J("dict", <<>>, {"error"}, <<>>, <<>>,
               <<123, 39, 101, 114, 114, 111, 114, 39, 58, 32, 39, 120, 39, 125>>)
JListOfOtherObj ==
    J("list", <<J("dict", <<>>, {"y"}, <<>>, <<>>, <<>>)>>, {}, <<>>, <<>>,
      <<91, 123, 39, 121, 39, 58, 32, 39, 120, 39, 125, 93>>)
JListOfNum == J("list", <<J("num", <<>>, {}, <<>>, <<>>, <<49>>)>>, {}, <<>>,
                <<>>, <<91, 49, 93>>)
JListOfStr == J("list", <<J("str", <<>>, {}, <<>>, <<120>>, <<>>)>>, {}, <<>>,
                <<>>, <<91, 39, 120, 39, 93>>)
JListOfKeyStr ==
    J("list", <<J("str", <<>>, {}, <<>>, SummaryTextKey, <<>>)>>, {}, <<>>, <<>>,
      <<91, 39, 115, 117, 109, 109, 97, 114, 121, 95, 116, 101, 120, 116, 39, 93>>)

JsonBodies == {JOk(sm) : sm \in Summaries} \cup
              {JEmptyList, JErrorObj, JListOfOtherObj, JListOfNum, JListOfStr,
               JListOfKeyStr}

\* What the HTTP exchange of line 41-43 can do:
\*   "post"    requests.post raises a RequestException (connection, timeout)
\*   "status"  a non-2xx status: raise_for_status raises HTTPError
\*   "notjson" the body is not JSON: response.json() raises; the exception is
\*             a RequestException from requests 2.27 on (compat = FALSE) and
\*             a plain ValueError before (compat = TRUE)
\*   "json"    the body decodes to data
Http(kind, msg, compat, data) ==
    [kind |-> kind, msg |-> msg, compat |-> compat, data |-> data]

MsgRefused == <<114, 101, 102, 117, 115, 101, 100>>              \* "refused"
MsgTimedOut == <<116, 105, 109, 101, 100, 32, 111, 117, 116>>    \* "timed out"
MsgStatus == <<53, 48, 51>>                                      \* "503"
MsgNotJson == <<69, 120, 112, 101, 99, 116, 105, 110, 103>>      \* "Expecting"

HttpOutcomes ==
    {Http("post", m, FALSE, JNone) : m \in {MsgRefused, MsgTimedOut}} \cup
    {Http("status", MsgStatus, FALSE, JNone)} \cup
    {Http("notjson", MsgNotJson, c, JNone) : c \in BOOLEAN} \cup
    {Http("json", <<>>, FALSE, d) : d \in JsonBodies}

\* needle in haystack, for two strings.
Contains(haystack, needle) ==
    \E k \in 0..(Len(haystack) - Len(needle)) :
        SubSeq(haystack, k + 1, k + Len(needle)) = needle

\* The exchange the backend documents as success: status 2xx and a body
\* [{"summary_text": s}, ...].
HttpSucceeded(o) ==
    /\ o.kind = "json"
    /\ o.data.t = "list"
    /\ o.data.items # <<>>
    /\ o.data.items[1].t = "dict"
    /\ "summary_text" \in o.data.items[1].fields

Returned(v) == [kind |-> "return", value |-> v, exc |-> "none"]
Raised(e) == [kind |-> "raise", value |-> <<>>, exc |-> e]

\* Lines 44-46, on the decoded body.
hf_pick(data) ==
    IF data.t # "list" THEN Returned(data.repr)                   \* line 46
    ELSE IF data.items = <<>> THEN Raised("IndexError")           \* data[0]
    ELSE LET first == data.items[1] IN
         CASE first.t = "dict" ->
                IF "summary_text" \in first.fields
                THEN Returned(first.summary)                      \* line 45
                ELSE Returned(data.repr)                          \* line 46
           [] first.t = "str" ->
                IF Contains(first.s, SummaryTextKey)
                THEN Raised("TypeError")             \* data[0]["summary_text"]
                ELSE Returned(data.repr)
           [] first.t = "list" ->
                IF \E k \in 1..Len(first.items) :
                       first.items[k].t = "str" /\ first.items[k].s = SummaryTextKey
                THEN Raised("TypeError")
                ELSE Returned(data.repr)
           [] OTHER -> Raised("TypeError")           \* "summary_text" in 1

\* The whole function on one outcome of the HTTP exchange.
hf_summarize(text, o) ==
    CASE o.kind \in {"post", "status"} -> Returned(ErrPrefix \o o.msg)  \* 47-48
      [] o.kind = "notjson" ->
            IF o.compat THEN Raised("ValueError")
            ELSE Returned(ErrPrefix \o o.msg)
      [] OTHER -> hf_pick(o.data)

hfNone == [pc |-> "none", payload |-> <<>>, outcome |-> Http("none", <<>>, FALSE, JNone),
           result |-> Returned(<<>>)]

\* The call is made: payload = {"inputs": text} (line 39).
HfInit ==
    \E t \in ChunkTexts :
        hf = [hfNone EXCEPT !.pc = "entry", !.payload = t]

\* Lines 40-48: the exchange happens and the function returns or raises.
hf_call(o) ==
    /\ hf.pc = "entry"
    /\ hf' = [hf EXCEPT !.pc = "done", !.outcome = o,
                        !.result = hf_summarize(hf.payload, o)]
    /\ UNCHANGED <<ck, impl, runs, tmpfiles>>

----------------------------------------------------------------------------
(* The local backend: summarizer = pipeline("summarization", ...),         *)
(* src/venv/api.py:24 and src/app.py:23-26.                                *)

\* One call summarizer(text, max_length=, min_length=, do_sample=) either
\* gives [{"summary_text": s}] or raises.
LocalOutcomes ==
    {[kind |-> "ok", summary |-> sm] : sm \in Summaries} \cup
    {[kind |-> "exc", summary |-> <<>>]}

\* The outcomes of the HTTP exchange followed in a pipeline run.
PipelineOutcomes ==
    {Http("json", <<>>, FALSE, JOk(sm)) : sm \in Summaries} \cup
    {Http("post", MsgTimedOut, FALSE, JNone), Http("json", <<>>, FALSE, JEmptyList)}

----------------------------------------------------------------------------
(* Requests and program runs.                                              *)

Runs == {"r1", "r2"}

max_length_default == 1000     \* src/api.py:80
overlap_default == 100         \* src/api.py:80
max_chunk == 1000              \* src/venv/api.py:47, src/app.py:78

\* A document text of n characters, all different.
DocText(n) == [k \in 1..n |-> 32 + k]

TextLens == {0, 1, max_chunk + 1, 2 * max_chunk + 1}
Texts == {DocText(n) : n \in TextLens}

\* A JSON request body: with or without a "text" field.
Bodies == {[has_text |-> FALSE, text |-> <<>>]} \cup
          {[has_text |-> TRUE, text |-> t] : t \in Texts}

NoTextProvided == <<78, 111, 32, 116, 101, 120, 116, 32, 112, 114, 111, 118,
                    105, 100, 101, 100>>                  \* "No text provided"
FailPrefix == <<70, 97, 105, 108, 101, 100, 32, 116, 111, 32, 114, 101, 97, 100,
                32, 80, 68, 70, 58, 32>>                  \* "Failed to read PDF: "
MsgBadPdf == <<69, 79, 70>>                               \* "EOF"

noResponse == [status |-> 0, key |-> "none", value |-> <<>>]

runNone == [pc |-> "idle", entry |-> "none", fn |-> "none",
            data |-> [has_text |-> FALSE, text |-> <<>>],
            text |-> <<>>, chunks |-> <<>>, i |-> 0,
            summaries |-> <<>>, summary |-> <<>>, calls |-> <<>>,
            response |-> noResponse, tmp |-> "none"]

\* data.get("text", "")
get_text(data) == IF data.has_text THEN data.text ELSE <<>>

\* not text
not_text_never(text) == FALSE

not_text(text) == text = <<>>

\* [text[i:i + max_chunk] for i in range(0, len(text), max_chunk)]
RECURSIVE range_chunks(_, _, _)
range_chunks(text, k, step) ==
    IF k < Len(text)
    THEN <<PySlice(text, k, k + step)>> \o range_chunks(text, k + step, step)
    ELSE <<>>

\* The chunk the for loop hands to its body after i iterations.
for_chunk_first(chunks, i) == chunks[1]

for_chunk(chunks, i) == chunks[i + 1]

\* A record of one backend call: what the backend was called with and what
\* came back.
Call(input, opts, ok, out) == [input |-> input, opts |-> opts, ok |-> ok, out |-> out]

\* The value a pipeline function returns reaches its caller: the handler
\* wraps it in a JSONResponse, any other caller holds the value.
finish(run, value) ==
    [run EXCEPT
        !.pc = "done",
        !.response =
            CASE run.entry = "summarize_api" ->
                    [status |-> 200, key |-> "summary", value |-> value]
              [] run.entry = "humanize_api" ->
                    [status |-> 200, key |-> "humanized", value |-> value]
              [] OTHER -> [status |-> 0, key |-> "return", value |-> value]]

\* summarize_long_text(text) up to its first backend call, src/api.py:78-85.
enter_summarize_long_text(run, text) ==
    LET chunks == chunk_text(text, max_length_default, overlap_default)
        r1 == [run EXCEPT !.fn = "summarize_long_text", !.text = text,
                          !.chunks = chunks, !.summaries = <<>>, !.i = 0]
    IN  IF chunks = <<>>
        THEN finish(r1, PyJoin(<<32>>, <<>>))
        ELSE [r1 EXCEPT !.pc = "backend"]

\* summarize_text(text) up to its first backend call, src/app.py:73-95 and
\* src/venv/api.py:44-61.
enter_summarize_text(run, text) ==
    LET chunks == range_chunks(text, 0, max_chunk)
        r1 == [run EXCEPT !.fn = "summarize_text", !.text = text,
                          !.chunks = chunks, !.summary = <<>>, !.i = 0]
    IN  IF chunks = <<>>
        THEN finish(r1, PyStrip(<<>>))
        ELSE [r1 EXCEPT !.pc = "backend"]

\* humanize_text(text) up to its backend call, src/venv/api.py:65-73 and
\* src/app.py:101-109.
enter_humanize_text(run, text) ==
    [run EXCEPT !.fn = "humanize_text", !.text = text, !.pc = "backend"]

----------------------------------------------------------------------------
(* The handlers and entry points.                                          *)

bad_request(run) ==
    [run EXCEPT !.pc = "done",
                !.response = [status |-> 400, key |-> "error",
                              value |-> NoTextProvided]]

\* POST /summarize: src/api.py:111-119, src/venv/api.py:108-125.
summarize_api(r, data) ==
    /\ impl \in {"api", "venv"}
    /\ runs[r].pc = "idle"
    /\ LET run == [runs[r] EXCEPT !.entry = "summarize_api", !.data = data]
           text == get_text(data)
       IN  runs' = [runs EXCEPT ![r] =
                IF not_text(text) THEN bad_request(run)
                ELSE IF impl = "api" THEN enter_summarize_long_text(run, text)
                ELSE enter_summarize_text(run, text)]
    /\ UNCHANGED <<ck, hf, impl, tmpfiles>>

\* POST /humanize: src/api.py:122-130, src/venv/api.py:129-146.
humanize_api(r, data) ==
    /\ impl \in {"api", "venv"}
    /\ runs[r].pc = "idle"
    /\ LET run == [runs[r] EXCEPT !.entry = "humanize_api", !.data = data]
           text == get_text(data)
       IN  runs' = [runs EXCEPT ![r] =
                IF not_text(text) THEN bad_request(run)
                ELSE IF impl = "api" THEN enter_summarize_long_text(run, text)
                ELSE enter_humanize_text(run, text)]
    /\ UNCHANGED <<ck, hf, impl, tmpfiles>>

\* summarize_long_text(text) called by any other caller, src/api.py:78.
call_summarize_long_text(r, text) ==
    /\ impl = "api"
    /\ runs[r].pc = "idle"
    /\ runs' = [runs EXCEPT ![r] =
            enter_summarize_long_text(
                [runs[r] EXCEPT !.entry = "summarize_long_text"], text)]
    /\ UNCHANGED <<ck, hf, impl, tmpfiles>>

\* Choice "1" of the command line program, src/app.py:132-146: the text read
\* from the PDF goes to summarize_text.
main_choice_1(r, text) ==
    /\ impl = "app"
    /\ runs[r].pc = "idle"
    /\ runs' = [runs EXCEPT ![r] =
            enter_summarize_text([runs[r] EXCEPT !.entry = "main_1"], text)]
    /\ UNCHANGED <<ck, hf, impl, tmpfiles>>

\* Choice "3" of the command line program, src/app.py:180-188.
main_choice_3(r, user_text) ==
    /\ impl = "app"
    /\ runs[r].pc = "idle"
    /\ runs' = [runs EXCEPT ![r] =
            enter_humanize_text([runs[r] EXCEPT !.entry = "main_3"], user_text)]
    /\ UNCHANGED <<ck, hf, impl, tmpfiles>>

\* src/api.py:82-85: hf_summarize(chunk) comes back for the current chunk;
\* after the last chunk the summaries are joined and returned.  An exception
\* of hf_summarize leaves summarize_long_text and the handler.
summarize_long_text_step(r, o) ==
    /\ runs[r].pc = "backend"
    /\ runs[r].fn = "summarize_long_text"
    /\ LET run == runs[r]
           chunk == for_chunk(run.chunks, run.i)
           res == hf_summarize(chunk, o)
           logged == [run EXCEPT !.calls = Append(@,
                        Call(chunk, <<>>, HttpSucceeded(o), res.value))]
           summaries == Append(run.summaries, res.value)
           looped == [logged EXCEPT !.summaries = summaries, !.i = @ + 1]
       IN  runs' = [runs EXCEPT ![r] =
                IF res.kind = "raise" THEN [logged EXCEPT !.pc = "raised"]
                ELSE IF looped.i = Len(run.chunks)
                     THEN finish(looped, PyJoin(<<32>>, summaries))
                     ELSE looped]
    /\ UNCHANGED <<ck, hf, impl, tmpfiles>>

\* src/app.py:87-95, src/venv/api.py:54-61: the summarizer comes back for the
\* current chunk; after the last chunk the summary is stripped and returned.
summarize_text_step(r, o) ==
    /\ runs[r].pc = "backend"
    /\ runs[r].fn = "summarize_text"
    /\ LET run == runs[r]
           chunk == for_chunk(run.chunks, run.i)
           logged == [run EXCEPT !.calls = Append(@,
                        Call(chunk, <<130, 30, FALSE>>, o.kind = "ok", o.summary))]
           summary == run.summary \o o.summary \o <<32>>
           looped == [logged EXCEPT !.summary = summary, !.i = @ + 1]
       IN  runs' = [runs EXCEPT ![r] =
                IF o.kind = "exc" THEN [logged EXCEPT !.pc = "raised"]
                ELSE IF looped.i = Len(run.chunks)
                     THEN finish(looped, PyStrip(summary))
                     ELSE looped]
    /\ UNCHANGED <<ck, hf, impl, tmpfiles>>

\* src/venv/api.py:68-73, src/app.py:106-109: one call on the whole text.
humanize_text_step(r, o) ==
    /\ runs[r].pc = "backend"
    /\ runs[r].fn = "humanize_text"
    /\ LET run == runs[r]
           logged == [run EXCEPT !.calls = Append(@,
                        Call(run.text, <<200, 50, TRUE>>, o.kind = "ok", o.summary))]
       IN  runs' = [runs EXCEPT ![r] =
                IF o.kind = "exc" THEN [logged EXCEPT !.pc = "raised"]
                ELSE finish(logged, o.summary)]
    /\ UNCHANGED <<ck, hf, impl, tmpfiles>>

TmpNames == {"tmp_a.pdf", "tmp_b.pdf"}

\* POST /read-pdf up to `await file.read()`: src/api.py:100-102,
\* src/venv/api.py:98-99.  NamedTemporaryFile(delete=False) creates a file
\* under a name not in use.
read_pdf_api(r) ==
    /\ impl \in {"api", "venv"}
    /\ runs[r].pc = "idle"
    /\ \E name \in TmpNames \ tmpfiles :
        /\ tmpfiles' = tmpfiles \cup {name}
        /\ runs' = [runs EXCEPT ![r] =
                [@ EXCEPT !.entry = "read_pdf_api", !.pc = "await_read",
                          !.tmp = name]]
    /\ UNCHANGED <<ck, hf, impl>>

\* The rest of POST /read-pdf: src/api.py:102-108, src/venv/api.py:99-104.
\* The upload is read and written (or that raises), the with block closes
\* the file, the text is extracted (or that raises).  src/api.py answers an
\* exception with status 500; src/venv/api.py lets it leave the handler.
\* No path removes the file.
read_pdf_api_resume(r, upload_ok, extract_ok, text) ==
    /\ runs[r].pc = "await_read"
    /\ LET run == runs[r]
       IN  runs' = [runs EXCEPT ![r] =
                IF upload_ok /\ extract_ok
                THEN [run EXCEPT !.pc = "done", !.text = text,
                        !.response = [status |-> 200, key |-> "text", value |-> text]]
                ELSE IF impl = "api"
                THEN [run EXCEPT !.pc = "done",
                        !.response = [status |-> 500, key |-> "error",
                                      value |-> FailPrefix \o MsgBadPdf]]
                ELSE [run EXCEPT !.pc = "raised"]]
    /\ UNCHANGED <<ck, hf, impl, tmpfiles>>

----------------------------------------------------------------------------
(* The specifications.                                                     *)

\* The services and the command line program, two requests (runs) at a time.
Init ==
    /\ impl \in {"api", "venv", "app"}
    /\ runs = [r \in Runs |-> runNone]
    /\ tmpfiles = {}
    /\ ck = ckNone
    /\ hf = hfNone

Next ==
    \/ \E r \in Runs, data \in Bodies : summarize_api(r, data)
    \/ \E r \in Runs, data \in Bodies : humanize_api(r, data)
    \/ \E r \in Runs, text \in Texts : call_summarize_long_text(r, text)
    \/ \E r \in Runs, text \in Texts : main_choice_1(r, text)
    \/ \E r \in Runs, text \in Texts : main_choice_3(r, text)
    \/ \E r \in Runs, o \in PipelineOutcomes : summarize_long_text_step(r, o)
    \/ \E r \in Runs, o \in LocalOutcomes : summarize_text_step(r, o)
    \/ \E r \in Runs, o \in LocalOutcomes : humanize_text_step(r, o)
    \/ \E r \in Runs : read_pdf_api(r)
    \/ \E r \in Runs, u \in BOOLEAN, e \in BOOLEAN, text \in Texts :
            read_pdf_api_resume(r, u, e, text)

Spec == Init /\ [][Next]_vars

\* Direct calls of chunk_text with every small configuration.
InitChunk ==
    /\ ChunkInit
    /\ impl = "none"
    /\ runs = [r \in Runs |-> runNone]
    /\ tmpfiles = {}
    /\ hf = hfNone

NextChunk == chunk_enter \/ chunk_iter \/ chunk_return

SpecChunk == InitChunk /\ [][NextChunk]_vars

\* Direct calls of hf_summarize with every outcome of the HTTP exchange.
InitBackend ==
    /\ HfInit
    /\ impl = "none"
    /\ runs = [r \in Runs |-> runNone]
    /\ tmpfiles = {}
    /\ ck = ckNone

NextBackend == \E o \in HttpOutcomes : hf_call(o)

SpecBackend == InitBackend /\ [][NextBackend]_vars

----------------------------------------------------------------------------
(* Properties.                                                             *)

ValidConfig(c) == c.max_length > 0 /\ 0 <= c.overlap /\ c.overlap < c.max_length

\* The offsets of text that a chunk starting at s covers.
Covered(c, s) == s .. (Min(s + c.max_length, Len(c.text)) - 1)

\* C1: under a valid configuration chunk j of chunk_text starts at
\* (j-1) * (max_length - overlap), the first at 0, and is
\* text[start : min(start + max_length, len(text))]; when the call returns,
\* the offsets the chunks cover are exactly 0 .. len(text)-1.
C1_ChunksCoverText ==
    (ck.pc \in {"loop", "returned"} /\ ValidConfig(ck)) =>
        LET stride == ck.max_length - ck.overlap
            n == Len(ck.text)
        IN  /\ ck.start = Len(ck.chunks) * stride
            /\ \A j \in 1..Len(ck.chunks) :
                 LET s == (j - 1) * stride
                 IN  /\ s < n
                     /\ ck.chunks[j] = SubSeq(ck.text, s + 1, Min(s + ck.max_length, n))
            /\ ck.pc = "returned" =>
                 UNION {Covered(ck, (j - 1) * stride) : j \in 1..Len(ck.chunks)}
                    = 0..(n - 1)

\* A returned call with overlapping chunks and a short last chunk.
C1_Witness ==
    /\ ck.pc = "returned"
    /\ ValidConfig(ck)
    /\ ck.overlap > 0
    /\ Len(ck.chunks) >= 3
    /\ Len(ck.chunks[Len(ck.chunks)]) < ck.max_length

\* C2: a call with overlap >= max_length or max_length <= 0 on a non-empty
\* text is rejected before the loop is entered and before a chunk is emitted.
C2_InvalidConfigRejected ==
    (~ValidConfig(ck) /\ ck.text # <<>>) =>
        (ck.pc \notin {"loop", "returned"} /\ ck.chunks = <<>>)

IsPipeline(run) == run.fn \in {"summarize_long_text", "summarize_text"}
Finished(run) == run.pc \in {"done", "raised"}
FailedCalls(run) == {k \in 1..Len(run.calls) : ~run.calls[k].ok}
Outs(run) == [k \in 1..Len(run.calls) |-> run.calls[k].out]

\* C3: a pipeline run in which the backend call of one chunk fails ends with
\* an output all the same: the backend was called for every chunk and the
\* output is made of one part per chunk, in chunk order.
C3_FailedChunkDegrades ==
    \A r \in Runs :
        (IsPipeline(runs[r]) /\ Finished(runs[r])
            /\ Cardinality(FailedCalls(runs[r])) = 1) =>
            /\ runs[r].pc = "done"
            /\ Len(runs[r].calls) = Len(runs[r].chunks)
            /\ PyStrip(runs[r].response.value) = PyStrip(PyJoin(<<32>>, Outs(runs[r])))

\* C4: hf_summarize never raises; it returns the summary when the exchange
\* succeeded and otherwise an error text that carries the underlying message.
C4_NeverRaises ==
    hf.pc = "done" =>
        /\ hf.result.kind = "return"
        /\ HttpSucceeded(hf.outcome) =>
                hf.result.value = hf.outcome.data.items[1].summary
        /\ ~HttpSucceeded(hf.outcome) =>
                /\ SubSeq(hf.result.value, 1, Len(ErrPrefix)) = ErrPrefix
                /\ Contains(hf.result.value, hf.outcome.msg)

\* C5: when every backend call of a pipeline run succeeded, the output is
\* the results joined by one space, in chunk order, and stripped.
C5_JoinedAndTrimmed ==
    \A r \in Runs :
        (IsPipeline(runs[r]) /\ runs[r].pc = "done" /\ FailedCalls(runs[r]) = {}) =>
            runs[r].response.value = PyStrip(PyJoin(<<32>>, Outs(runs[r])))

IsTextRequest(run) == run.entry \in {"summarize_api", "humanize_api"}

\* C6: a /summarize or /humanize request without text, or with an empty
\* text, is answered 400 "No text provided" with no backend call made; a
\* request with a non-empty text is never answered 400.
C6_NoTextIs400 ==
    \A r \in Runs :
        IsTextRequest(runs[r]) =>
            IF ~runs[r].data.has_text \/ runs[r].data.text = <<>>
            THEN /\ runs[r].pc = "done"
                 /\ runs[r].response =
                        [status |-> 400, key |-> "error", value |-> NoTextProvided]
                 /\ runs[r].calls = <<>>
            ELSE runs[r].response.status # 400

\* One request answered 400 for an empty text, next to one that reached the
\* backend.
C6_Witness ==
    \E r, q \in Runs :
        /\ runs[r].entry = "humanize_api"
        /\ runs[r].data.has_text /\ runs[r].data.text = <<>>
        /\ runs[r].response.status = 400
        /\ runs[q].entry = "summarize_api"
        /\ runs[q].calls # <<>>

\* C7: once a /read-pdf request has completed, its temporary file is gone.
C7_TempFileRemoved ==
    \A r \in Runs :
        (runs[r].entry = "read_pdf_api" /\ Finished(runs[r])) =>
            runs[r].tmp \notin tmpfiles

\* C8: summarize_long_text and summarize_text on the empty text make no
\* chunk and no backend call and return the empty string.
C8_EmptyTextEmptyOutput ==
    \A r \in Runs :
        (IsPipeline(runs[r]) /\ runs[r].text = <<>>) =>
            /\ runs[r].chunks = <<>>
            /\ runs[r].calls = <<>>
            /\ runs[r].pc = "done"
            /\ runs[r].response = [status |-> 0, key |-> "return", value |-> <<>>]

C8_Witness ==
    \E r \in Runs :
        /\ runs[r].fn = "summarize_long_text"
        /\ runs[r].text = <<>>
        /\ runs[r].pc = "done"

IsHumanize(run) == run.entry \in {"humanize_api", "main_3"}

\* C9: whatever the intent, the backend is called on the chunks of
\* chunk_text(text, 1000, 100), never on more than 1000 characters; a local
\* backend is given the options (200, 50, sampling) for humanize and
\* (130, 30, no sampling) for summarize (the remote request carries the text
\* alone).
C9_SameChunking ==
    \A r \in Runs :
        \A k \in 1..Len(runs[r].calls) :
            LET c == runs[r].calls[k]
                expected == chunk_text(runs[r].text, max_length_default,
                                       overlap_default)
            IN  /\ Len(c.input) <= max_length_default
                /\ k <= Len(expected)
                /\ c.input = expected[k]
                /\ impl # "api" =>
                        c.opts = IF IsHumanize(runs[r]) THEN <<200, 50, TRUE>>
                                 ELSE <<130, 30, FALSE>>

RECURSIVE SpaceTerminated(_)
SpaceTerminated(items) ==
    IF items = <<>> THEN <<>>
    ELSE items[1] \o <<32>> \o SpaceTerminated(Tail(items))

\* C10: in every pipeline run, whatever the other runs do, call k of the
\* backend is on chunk k and result k is its result; there are never more
\* calls or results than chunks, and as many when the run returns.
C10_OneCallPerChunkInOrder ==
    \A r \in Runs :
        IsPipeline(runs[r]) =>
            LET run == runs[r] IN
            /\ Len(run.calls) <= Len(run.chunks)
            /\ \A k \in 1..Len(run.calls) : run.calls[k].input = run.chunks[k]
            /\ run.i <= Len(run.calls)
            /\ run.fn = "summarize_long_text" =>
                    /\ Len(run.summaries) = run.i
                    /\ \A k \in 1..run.i : run.summaries[k] = run.calls[k].out
            /\ run.fn = "summarize_text" =>
                    run.summary = SpaceTerminated(SubSeq(Outs(run), 1, run.i))
            /\ run.pc = "backend" => run.i = Len(run.calls)
            /\ run.pc = "done" =>
                    run.i = Len(run.chunks) /\ Len(run.calls) = Len(run.chunks)

\* One run has returned after three calls while the other is between calls.
C10_Witness ==
    \E r, q \in Runs :
        /\ IsPipeline(runs[r]) /\ runs[r].pc = "done" /\ Len(runs[r].calls) = 3
        /\ IsPipeline(runs[q]) /\ runs[q].pc = "backend" /\ Len(runs[q].calls) = 1

====
